---- MODULE Spec2Model ----
(***************************************************************************)
(* A model of app/client/components/AceEditor.js: the AceEditor wrapper    *)
(* around the ace code-editor widget (lines 1-249) and the document        *)
(* settings page, DocSettingsPage and buildLocaleSelect (lines 251-615).   *)
(*                                                                         *)
(* Five specifications share the variables:                                *)
(*   Spec          the life cycle of one AceEditor wrapper                 *)
(*   SpecBuilt     setValue and resize on a wrapper whose editor is built  *)
(*   SpecEngine    the engine field of the settings page                   *)
(*   SpecLocale    the locale field of the settings page                   *)
(*   SpecReload    the 'Reload data engine' button of the settings page    *)
(***************************************************************************)
EXTENDS Integers, Sequences, FiniteSets, TLC

\* ------------------------------------------------------------ bounds
\* buildDom calls on one wrapper
MaxBuild == 2
\* characters of a text handed to setValue or typed (SpecBuilt)
MaxLen == 2
\* writes to the engine field
MaxWrites == 2
\* selections made in the locale field
MaxSelects == 2
\* clicks on the 'Reload data engine' button
MaxClicks == 4

\* ------------------------------------------------------------ values
NL == "nl"
Chars == {"a", NL}

Texts(n) == UNION {[1..k -> Chars] : k \in 0..n}

\* A JavaScript value held by the observable: a string or undefined.
Str(s) == [t |-> "string", s |-> s]
Undefined == [t |-> "undefined", s |-> <<>>]
Null == [t |-> "null", s |-> <<>>]

\* The texts the life-cycle specification types and stores.
EdTexts == {<<>>, <<"a">>, <<"a", NL>>}
ObsVals == {Undefined} \cup {Str(s) : s \in EdTexts}

Min(a, b) == IF a < b THEN a ELSE b
Max(a, b) == IF a > b THEN a ELSE b

\* ------------------------------------------------------------ the ace document
\* The lines of a text: ace splits the text at its newlines.
RECURSIVE SplitLines(_)
SplitLines(s) ==
  IF s = <<>> THEN << <<>> >>
  ELSE LET rest == SplitLines(Tail(s))
       IN  IF Head(s) = NL
           THEN << <<>> >> \o rest
           ELSE << <<Head(s)>> \o Head(rest) >> \o Tail(rest)

\* Document.indexToPosition: walk the lines, a newline counting one character.
RECURSIVE IndexToPositionFrom(_, _, _)
IndexToPositionFrom(lines, index, i) ==
  IF i > Len(lines)
  THEN [row |-> Len(lines) - 1, column |-> index + Len(lines[Len(lines)]) + 1]
  ELSE LET left == index - (Len(lines[i]) + 1)
       IN  IF left < 0
           THEN [row |-> i - 1, column |-> left + Len(lines[i]) + 1]
           ELSE IndexToPositionFrom(lines, left, i + 1)

indexToPosition(val, index) == IndexToPositionFrom(SplitLines(val), index, 1)

DocStart == [row |-> 0, column |-> 0]
DocEnd(val) ==
  LET lines == SplitLines(val)
  IN  [row |-> Len(lines) - 1, column |-> Len(lines[Len(lines)])]

\* editor.setValue(val, cursorPos) of the widget, as lines 81-82 document it:
\* undefined or 0 selects all, -1 is the document start, 1 the document end.
AceSetValue(val, cursorPos) ==
  [text |-> val,
   cursor |-> IF cursorPos = -1 THEN DocStart ELSE DocEnd(val),
   selectedAll |-> cursorPos = 0]

\* setValue with a fault: the offset is handed to the widget as it is.
setValueRawPos(val, hasPos, optCursorPos) ==
  LET e == AceSetValue(val, IF hasPos /\ optCursorPos # 0 THEN 1 ELSE 0)
  IN  IF hasPos /\ optCursorPos > 0 /\ optCursorPos < Len(val)
      THEN [e EXCEPT !.cursor = indexToPosition(val, optCursorPos)]
      ELSE e

\* AceEditor.prototype.setValue(val, optCursorPos); hasPos is FALSE when the
\* offset is omitted (undefined: neither === 0 nor > 0).
setValue(val, hasPos, optCursorPos) ==
  LET e == AceSetValue(val, IF hasPos /\ optCursorPos = 0 THEN -1 ELSE 1)
  IN  IF hasPos /\ optCursorPos > 0 /\ optCursorPos < Len(val)
      THEN [e EXCEPT !.cursor = indexToPosition(val, optCursorPos)]
      ELSE e

\* ------------------------------------------------------------ sizing
textPadding == 10
ScrollbarHeight == 20

\* Renderer metrics of the widget (they depend on the font).
DefaultMetrics == [characterWidth |-> 7, lineHeight |-> 13]
Metrics == {DefaultMetrics, [characterWidth |-> 6, lineHeight |-> 15]}

\* Caller-supplied sizing functions: the default (line 26), clamps to a
\* maximum width and height, and one that always answers narrower.
DefaultCalcSize == [kind |-> "identity", w |-> 0, h |-> 0]
CalcFns ==
  {DefaultCalcSize}
    \cup {[kind |-> "clamp", w |-> w, h |-> h] : w \in {0, 12, 100}, h \in {30, 100}}
    \cup {[kind |-> "narrow", w |-> 11, h |-> 0]}

ApplyCalcSize(fn, size) ==
  CASE fn.kind = "identity" -> size
    [] fn.kind = "clamp" ->
         [width |-> Min(size.width, fn.w), height |-> Min(size.height, fn.h)]
    [] fn.kind = "narrow" ->
         [width |-> size.width - fn.w, height |-> size.height]

\* session.getScreenWidth(): the longest line; getScreenLength(): the lines.
RECURSIVE MaxLineLen(_)
MaxLineLen(lines) ==
  IF lines = <<>> THEN 0 ELSE Max(Len(Head(lines)), MaxLineLen(Tail(lines)))

getScreenWidth(txt) == MaxLineLen(SplitLines(txt))
getScreenLength(txt) == Len(SplitLines(txt))

getContentWidth(txt, m) == getScreenWidth(txt) * m.characterWidth
getContentHeight(txt, m) == Max(1, getScreenLength(txt)) * m.lineHeight

\* A CSS length: 'auto' or a number of px.
Auto == [unit |-> "auto", n |-> 0]
Px(n) == [unit |-> "px", n |-> n]

\* resize with a fault: the second question is asked also when the answer
\* is exactly the content width.
resizeAtMost(fn, useWrap, txt, m) ==
  LET contentWidth == IF useWrap THEN 0 ELSE getContentWidth(txt, m)
      desiredSize == [width |-> IF useWrap THEN 0 ELSE contentWidth + textPadding,
                      height |-> getContentHeight(txt, m)]
      first == ApplyCalcSize(fn, desiredSize)
      taller == [desiredSize EXCEPT !.height = @ + ScrollbarHeight]
      again == first.width <= contentWidth
      size == IF again THEN ApplyCalcSize(fn, taller) ELSE first
  IN  [asked |-> IF again THEN <<desiredSize, taller>> ELSE <<desiredSize>>,
       width |-> IF size.width # 0 THEN Px(size.width) ELSE Auto,
       height |-> Px(size.height)]

\* AceEditor.prototype.resize: the questions put to calcSize, in order, and
\* the style applied to editorDom.
resize(fn, useWrap, txt, m) ==
  LET contentWidth == IF useWrap THEN 0 ELSE getContentWidth(txt, m)
      desiredSize == [width |-> IF useWrap THEN 0 ELSE contentWidth + textPadding,
                      height |-> getContentHeight(txt, m)]
      first == ApplyCalcSize(fn, desiredSize)
      taller == [desiredSize EXCEPT !.height = @ + ScrollbarHeight]
      again == first.width < contentWidth
      size == IF again THEN ApplyCalcSize(fn, taller) ELSE first
  IN  [asked |-> IF again THEN <<desiredSize, taller>> ELSE <<desiredSize>>,
       width |-> IF size.width # 0 THEN Px(size.width) ELSE Auto,
       height |-> Px(size.height)]

\* ------------------------------------------------------------ state
VARIABLES
  \* the AceEditor wrapper (lines 22-36)
  options,               \* the constructor's argument, kept for reference
  observable,            \* "obs" when an observable is bound, else "null"
  saveValueOnBlurEvent,
  calcSize,
  editor,                \* 0 is null; else the editorDom that hosts the widget
  editorDom,             \* 0 is null; else the number of the buildDom that made it
  setupCallback,         \* 0 is null; else the callback of that buildDom
  setupTimer,            \* 0 is null; else a timer id
  \* the wrapper's surroundings
  timers,                \* the timers scheduled and neither fired nor cleared
  buildCount,            \* buildDom calls so far
  setupCalls,            \* _setup runs so far (one ace.edit call each)
  subscriptions,         \* live subscriptions to the observable
  changeHandlers,        \* 'change' handlers on the widget
  blurHandlers,          \* 'blur' handlers on the widget
  commands,              \* the widget's commands, by name
  passed,                \* the setup callbacks passed to buildDom
  cbCalls,               \* per setup callback: the editors it was called with
  disposed,
  setupsAfterDispose,    \* _setup runs on the disposed wrapper
  obsValue,              \* the observable's value
  \* the widget and its element
  text, cursor, selectedAll, wrap, metrics, style,
  \* the last operation: its name, what it threw, what it returned, what it
  \* wrote to the observable, what it was called with
  last,
  \* the settings page
  engine,                \* documentSettingsJson.prop('engine')
  writes,                \* the writes to the engine field, one record each
  locale,                \* documentSettingsJson.prop('locale')
  localeSaves,           \* the saveOnly calls on locale: value and state
  selects,               \* selections made in the locale field so far
  reported,              \* errors handed to reportError
  clicks,                \* the clicks on 'Reload data engine', one record each
  currentDocId           \* docPageModel.currentDocId

wrapperVars == <<options, observable, saveValueOnBlurEvent, calcSize, editor,
                 editorDom, setupCallback, setupTimer>>
lifeVars == <<timers, buildCount, setupCalls, subscriptions, changeHandlers,
              blurHandlers, commands, passed, cbCalls, disposed,
              setupsAfterDispose>>
widgetVars == <<text, cursor, selectedAll, wrap, metrics, style>>
reloadVars == <<clicks, currentDocId>>
settingsVars == <<engine, writes, locale, localeSaves, selects, reported,
                  reloadVars>>
vars == <<wrapperVars, lifeVars, obsValue, widgetVars, last, settingsVars>>

NoOp == [op |-> "none", thrown |-> "none", handled |-> FALSE, wrote |-> 0,
         arg |-> <<>>]
Did(op) == [NoOp EXCEPT !.op = op]

Curr == [text |-> text, cursor |-> cursor, selectedAll |-> selectedAll]

\* ------------------------------------------------------------ construction
NoCalcSize == [kind |-> "undefined", w |-> 0, h |-> 0]
NoOptions ==
  [given |-> FALSE, observable |-> FALSE, saveValueOnBlurEvent |-> "undefined",
   calcSize |-> NoCalcSize]
OptionsOver(calcs) ==
  {NoOptions} \cup
  {[given |-> TRUE, observable |-> o, saveValueOnBlurEvent |-> b, calcSize |-> c] :
     o \in BOOLEAN, b \in {"undefined", "true", "false"}, c \in calcs}

\* The constructor with a fault: saving on blur only when asked for.
AceEditorBlurOptIn(opts) ==
  [observable |-> IF opts.given /\ opts.observable THEN "obs" ELSE "null",
   saveValueOnBlurEvent |-> opts.given /\ opts.saveValueOnBlurEvent = "true",
   calcSize |-> IF opts.given /\ opts.calcSize # NoCalcSize
                THEN opts.calcSize ELSE DefaultCalcSize]

\* function AceEditor(options): the fields the constructor computes.
AceEditor(opts) ==
  [observable |-> IF opts.given /\ opts.observable THEN "obs" ELSE "null",
   saveValueOnBlurEvent |-> ~(opts.given /\ opts.saveValueOnBlurEvent = "false"),
   calcSize |-> IF opts.given /\ opts.calcSize # NoCalcSize
                THEN opts.calcSize ELSE DefaultCalcSize]

SettingsIdle ==
  /\ engine = "undefined"
  /\ writes = <<>>
  /\ locale = "en-US"
  /\ localeSaves = <<>>
  /\ selects = 0
  /\ reported = 0
  /\ clicks = <<>>
  /\ currentDocId = "doc1"

Constructed(opts) ==
  /\ options = opts
  /\ observable = AceEditor(opts).observable
  /\ saveValueOnBlurEvent = AceEditor(opts).saveValueOnBlurEvent
  /\ calcSize = AceEditor(opts).calcSize
  /\ editor = 0
  /\ editorDom = 0
  /\ setupCallback = 0
  /\ setupTimer = 0
  /\ timers = {}
  /\ buildCount = 0
  /\ setupCalls = 0
  /\ subscriptions = 0
  /\ changeHandlers = 0
  /\ blurHandlers = 0
  /\ commands = {}
  /\ passed = {}
  /\ cbCalls = [c \in 1..MaxBuild |-> <<>>]
  /\ disposed = FALSE
  /\ setupsAfterDispose = 0
  /\ text = <<>>
  /\ cursor = DocStart
  /\ selectedAll = FALSE
  /\ wrap = FALSE
  /\ style = [asked |-> <<>>, width |-> Auto, height |-> Auto]
  /\ last = NoOp

LifeCalcs == {NoCalcSize, [kind |-> "clamp", w |-> 12, h |-> 30]}

Init ==
  /\ \E opts \in OptionsOver(LifeCalcs) : Constructed(opts)
  /\ obsValue \in (IF observable = "obs" THEN ObsVals ELSE {Undefined})
  /\ metrics = DefaultMetrics
  /\ SettingsIdle

\* ------------------------------------------------------------ life cycle
\* SetupCallbackAfter with a fault: the callback is kept after it was called.
SetupCallbackKept(cb) == cb

\* Lines 209-212: _setupCallback after _setup has called it.
SetupCallbackAfter(cb) == 0

\* SavesOnBlur with a fault: the blur handler is added whatever the flag.
SavesOnBlurAlways(obs, flag) == obs = "obs"

\* Lines 195 and 202: whether _setup adds the blur handler.
SavesOnBlur(obs, flag) == obs = "obs" /\ flag

\* AceEditor.prototype.buildDom(optSetupCallback): a new container and
\* editorDom, the callback stored (undefined when none is passed) and a new
\* timer set; an earlier timer is left as it is.
BuildDom(withCallback) ==
  /\ ~disposed
  /\ buildCount < MaxBuild
  /\ buildCount' = buildCount + 1
  /\ editorDom' = buildCount + 1
  /\ setupCallback' = IF withCallback THEN buildCount + 1 ELSE 0
  /\ setupTimer' = buildCount + 1
  /\ timers' = timers \cup {buildCount + 1}
  /\ passed' = IF withCallback THEN passed \cup {buildCount + 1} ELSE passed
  /\ last' = Did("buildDom")
  /\ UNCHANGED <<options, observable, saveValueOnBlurEvent, calcSize, editor,
                 setupCalls, subscriptions, changeHandlers, blurHandlers,
                 commands, cbCalls, disposed, setupsAfterDispose, obsValue,
                 widgetVars, settingsVars>>

\* AceEditor.prototype._setup, run to its end: the widget is made in
\* editorDom (line 169), the session set to wrap (187), a change handler
\* added (189), the element sized (192), the observable subscribed and its
\* value shown (196), the blur handler added (203) and the setup callback
\* called with the editor and cleared (209-212). A widget made in a new
\* element starts empty, with no handlers and no commands of ours.
SetupRuns ==
  LET fresh == editor # editorDom
      base == IF fresh
              THEN [text |-> <<>>, cursor |-> DocStart, selectedAll |-> FALSE]
              ELSE Curr
      bound == observable = "obs"
      e == IF bound /\ obsValue # Undefined
           THEN setValue(obsValue.s, FALSE, 0)
           ELSE base
  IN  /\ editor' = editorDom
      /\ setupCalls' = setupCalls + 1
      /\ wrap' = TRUE
      /\ changeHandlers' = (IF fresh THEN 0 ELSE changeHandlers) + 1
      /\ commands' = IF fresh THEN {} ELSE commands
      /\ subscriptions' = subscriptions + (IF bound THEN 1 ELSE 0)
      /\ blurHandlers' = (IF fresh THEN 0 ELSE blurHandlers)
                           + (IF SavesOnBlur(observable, saveValueOnBlurEvent)
                              THEN 1 ELSE 0)
      /\ text' = e.text
      /\ cursor' = e.cursor
      /\ selectedAll' = e.selectedAll
      /\ style' = resize(calcSize, TRUE, e.text, metrics)
      /\ IF setupCallback # 0
         THEN /\ cbCalls' = [cbCalls EXCEPT ![setupCallback] = Append(@, editorDom)]
              /\ setupCallback' = SetupCallbackAfter(setupCallback)
         ELSE UNCHANGED <<cbCalls, setupCallback>>
      /\ UNCHANGED <<options, observable, saveValueOnBlurEvent, calcSize,
                     editorDom, buildCount, passed, obsValue, metrics,
                     settingsVars>>

\* _setup on a disposed wrapper, failing at line 169: what dispose leaves of
\* the wrapper's fields is not decided in this file, and the run may end
\* there with a TypeError.
SetupThrows ==
  /\ setupCalls' = setupCalls + 1
  /\ UNCHANGED <<options, observable, saveValueOnBlurEvent, calcSize, editor,
                 editorDom, setupCallback, buildCount, subscriptions,
                 changeHandlers, blurHandlers, commands, passed, cbCalls,
                 obsValue, widgetVars, settingsVars>>

\* The timer set by buildDom (line 46) fires: () => this._setup().
\* _setupTimer keeps the id of the timer.
TimerFire(t) ==
  /\ t \in timers
  /\ timers' = timers \ {t}
  /\ UNCHANGED <<setupTimer, disposed>>
  /\ \/ /\ ~disposed
        /\ SetupRuns
        /\ last' = Did("timer")
        /\ UNCHANGED setupsAfterDispose
     \/ /\ disposed
        /\ SetupRuns
        /\ last' = Did("timer")
        /\ setupsAfterDispose' = setupsAfterDispose + 1
     \/ /\ disposed
        /\ SetupThrows
        /\ last' = [Did("timer") EXCEPT !.thrown = "TypeError"]
        /\ setupsAfterDispose' = setupsAfterDispose + 1

\* SetupPending with a fault: onAttach sets up whenever the element exists.
SetupPendingLoose(timer, dom) == dom # 0

\* Line 55: if (this._setupTimer).
SetupPending(timer, dom) == timer # 0

\* AceEditor.prototype.onAttach.
OnAttach ==
  /\ ~disposed
  /\ IF SetupPending(setupTimer, editorDom)
     THEN /\ timers' = timers \ {setupTimer}
          /\ setupTimer' = 0
          /\ SetupRuns
     ELSE UNCHANGED <<wrapperVars, timers, buildCount, setupCalls, subscriptions,
                      changeHandlers, blurHandlers, commands, passed, cbCalls,
                      obsValue, widgetVars, settingsVars>>
  /\ last' = Did("onAttach")
  /\ UNCHANGED <<disposed, setupsAfterDispose>>

\* dispose() of the wrapper and of its element: what the wrapper registered
\* is released, that is the widget (autoDisposeWith('destroy', ..), line 169)
\* with its handlers and commands, and the subscription (dom.autoDispose,
\* line 199). Nothing registers the timer of line 46.
Dispose ==
  /\ ~disposed
  /\ disposed' = TRUE
  /\ subscriptions' = 0
  /\ changeHandlers' = 0
  /\ blurHandlers' = 0
  /\ commands' = {}
  /\ last' = Did("dispose")
  /\ UNCHANGED <<wrapperVars, timers, buildCount, setupCalls, passed, cbCalls,
                 setupsAfterDispose, obsValue, widgetVars, settingsVars>>

\* ------------------------------------------------------------ the binding
\* AceEditor.prototype.getValue: this.editor && this.editor.getValue().
getValue == IF editor = 0 THEN Null ELSE Str(text)

\* The widget after a 'change': every change handler runs resize (line 189).
Shows(e) ==
  /\ text' = e.text
  /\ cursor' = e.cursor
  /\ selectedAll' = e.selectedAll
  /\ style' = IF changeHandlers > 0
              THEN resize(calcSize, wrap, e.text, metrics)
              ELSE style
  /\ UNCHANGED <<wrap, metrics>>

\* ObservableSet with a fault: an undefined value is not skipped, and is
\* shown as the empty text.
ObservableSetAny(v) ==
  /\ obsValue' = v
  /\ IF v # obsValue /\ subscriptions > 0
     THEN Shows(setValue(v.s, FALSE, 0))
     ELSE UNCHANGED widgetVars

\* The subscription of line 196, run for a new value v of the observable:
\* val => {if (val !== undefined) {this.setValue(val);}}. The observable
\* notifies its subscribers when its value changes.
ObservableSet(v) ==
  /\ obsValue' = v
  /\ IF v # obsValue /\ subscriptions > 0 /\ v # Undefined
     THEN Shows(setValue(v.s, FALSE, 0))
     ELSE UNCHANGED widgetVars

\* HasObservable with a fault: writeObservable does not look for the observable.
HasObservableAlways(obs) == TRUE

\* Line 63: if (this.observable).
HasObservable(obs) == obs = "obs"

\* AceEditor.prototype.writeObservable: setSaveValue(observable, getValue()).
writeObservable ==
  IF HasObservable(observable)
  THEN ObservableSet(getValue)
  ELSE UNCHANGED <<obsValue, widgetVars>>

Wrote == IF HasObservable(observable) THEN 1 ELSE 0

\* The owner calls writeObservable(). With an observable bound it is called
\* on a built editor, as the handlers of lines 146 and 204 call it.
WriteObservable ==
  /\ ~disposed
  /\ observable = "null" \/ editor # 0
  /\ writeObservable
  /\ last' = [Did("writeObservable") EXCEPT !.wrote = Wrote]
  /\ UNCHANGED <<wrapperVars, lifeVars, settingsVars>>

\* The widget loses focus: its blur handlers run (lines 203-205). They all
\* write the same text.
Blur ==
  /\ ~disposed
  /\ editor # 0
  /\ IF blurHandlers > 0
     THEN /\ writeObservable
          /\ last' = [Did("blur") EXCEPT !.wrote = blurHandlers * Wrote]
     ELSE /\ UNCHANGED <<obsValue, widgetVars>>
          /\ last' = Did("blur")
  /\ UNCHANGED <<wrapperVars, lifeVars, settingsVars>>

\* The user edits the text of the widget.
TypeText(s) ==
  /\ ~disposed
  /\ editor # 0
  /\ s # text
  /\ Shows([text |-> s, cursor |-> DocEnd(s), selectedAll |-> FALSE])
  /\ last' = Did("type")
  /\ UNCHANGED <<wrapperVars, lifeVars, obsValue, settingsVars>>

\* The observable is given a new value from elsewhere.
ObsChange(v) ==
  /\ ~disposed
  /\ observable = "obs"
  /\ v # obsValue
  /\ ObservableSet(v)
  /\ last' = Did("observable")
  /\ UNCHANGED <<wrapperVars, lifeVars, settingsVars>>

SaveCommand == [name |-> "saveFormula", bindKey |-> "Shift+Enter"]

\* SaveCommandAllowed with a fault: no observable is asked for.
SaveCommandAllowedAlways(obs) == TRUE

\* Line 133: if (!this.observable) throw.
SaveCommandAllowed(obs) == obs # "null"

\* AceEditor.prototype.attachSaveCommand. Before the editor is built,
\* this.editor.commands (line 137) is a TypeError.
AttachSaveCommand ==
  /\ ~disposed
  /\ IF ~SaveCommandAllowed(observable)
     THEN /\ last' = [Did("attachSaveCommand") EXCEPT !.thrown = "Error"]
          /\ UNCHANGED commands
     ELSE IF editor = 0
     THEN /\ last' = [Did("attachSaveCommand") EXCEPT !.thrown = "TypeError"]
          /\ UNCHANGED commands
     ELSE /\ last' = Did("attachSaveCommand")
          /\ commands' = commands \cup {SaveCommand}
  /\ UNCHANGED <<wrapperVars, timers, buildCount, setupCalls, subscriptions,
                 changeHandlers, blurHandlers, passed, cbCalls, disposed,
                 setupsAfterDispose, obsValue, widgetVars, settingsVars>>

\* The user presses a key bound to a command: its exec runs (lines 145-148).
KeyPress(key) ==
  /\ ~disposed
  /\ editor # 0
  /\ \E c \in commands : c.bindKey = key
  /\ writeObservable
  /\ last' = [Did("exec") EXCEPT !.handled = TRUE, !.wrote = Wrote,
                                 !.arg = <<key>>]
  /\ UNCHANGED <<wrapperVars, lifeVars, settingsVars>>

Next ==
  \/ \E cb \in BOOLEAN : BuildDom(cb)
  \/ \E t \in 1..MaxBuild : TimerFire(t)
  \/ OnAttach
  \/ Dispose
  \/ WriteObservable
  \/ Blur
  \/ \E s \in EdTexts : TypeText(s)
  \/ \E v \in ObsVals : ObsChange(v)
  \/ AttachSaveCommand
  \/ KeyPress("Shift+Enter")

Spec == Init /\ [][Next]_vars

\* ------------------------------------------------------------ a built editor
\* AceEditor.prototype.setValue called by the owner. Before the editor is
\* built, this.editor.setValue (line 83) is a TypeError.
SetValueCall(val, hasPos, optCursorPos) ==
  /\ ~disposed
  /\ IF editor = 0
     THEN /\ last' = [Did("setValue") EXCEPT !.thrown = "TypeError",
                                            !.arg = <<val, hasPos, optCursorPos>>]
          /\ UNCHANGED widgetVars
     ELSE /\ last' = [Did("setValue") EXCEPT !.arg = <<val, hasPos, optCursorPos>>]
          /\ Shows(setValue(val, hasPos, optCursorPos))
  /\ UNCHANGED <<wrapperVars, lifeVars, obsValue, settingsVars>>

\* AceEditor.prototype.resize called by the owner.
ResizeCall ==
  /\ ~disposed
  /\ editor # 0
  /\ style' = resize(calcSize, wrap, text, metrics)
  /\ last' = Did("resize")
  /\ UNCHANGED <<wrapperVars, lifeVars, obsValue, text, cursor, selectedAll,
                 wrap, metrics, settingsVars>>

\* AceEditor.prototype.setFontSize(pxVal): the font, and with it the
\* renderer's metrics, change, and resize runs.
SetFontSize(m) ==
  /\ ~disposed
  /\ editor # 0
  /\ metrics' = m
  /\ style' = resize(calcSize, wrap, text, m)
  /\ last' = Did("setFontSize")
  /\ UNCHANGED <<wrapperVars, lifeVars, obsValue, text, cursor, selectedAll,
                 wrap, settingsVars>>

\* The owner switches the session's wrap mode through getEditor() (line 68).
SetUseWrapMode(b) ==
  /\ ~disposed
  /\ editor # 0
  /\ b # wrap
  /\ wrap' = b
  /\ last' = Did("setUseWrapMode")
  /\ UNCHANGED <<wrapperVars, lifeVars, obsValue, text, cursor, selectedAll,
                 metrics, style, settingsVars>>

\* The wrapper after new AceEditor(opts), buildDom() and the timer firing.
Built(opts) ==
  /\ options = opts
  /\ observable = AceEditor(opts).observable
  /\ saveValueOnBlurEvent = AceEditor(opts).saveValueOnBlurEvent
  /\ calcSize = AceEditor(opts).calcSize
  /\ editor = 1
  /\ editorDom = 1
  /\ setupCallback = 0
  /\ setupTimer = 1
  /\ timers = {}
  /\ buildCount = 1
  /\ setupCalls = 1
  /\ subscriptions = 0
  /\ changeHandlers = 1
  /\ blurHandlers = 0
  /\ commands = {}
  /\ passed = {}
  /\ cbCalls = [c \in 1..MaxBuild |-> <<>>]
  /\ disposed = FALSE
  /\ setupsAfterDispose = 0
  /\ obsValue = Undefined
  /\ text = <<>>
  /\ cursor = DocStart
  /\ selectedAll = FALSE
  /\ wrap = TRUE
  /\ style = resize(calcSize, TRUE, <<>>, metrics)
  /\ last = Did("timer")

BuiltOptions ==
  {[given |-> TRUE, observable |-> FALSE, saveValueOnBlurEvent |-> "undefined",
    calcSize |-> c] : c \in CalcFns \cup {NoCalcSize}}

InitBuilt ==
  /\ metrics \in Metrics
  /\ \E opts \in BuiltOptions : Built(opts)
  /\ SettingsIdle

NextBuilt ==
  \/ \E val \in Texts(MaxLen) :
       \/ SetValueCall(val, FALSE, 0)
       \/ \E pos \in 0..(MaxLen + 1) : SetValueCall(val, TRUE, pos)
  \/ ResizeCall
  \/ \E m \in Metrics : SetFontSize(m)
  \/ \E b \in BOOLEAN : SetUseWrapMode(b)
  \/ \E s \in Texts(MaxLen) : TypeText(s)

SpecBuilt == InitBuilt /\ [][NextBuilt]_vars

\* ------------------------------------------------------------ the settings page
EngineCodes == {"python2", "python3"}
EngineVals == {"undefined"} \cup EngineCodes

\* EngineDiffers with a fault: _doSetEngine saves whatever the value.
EngineDiffersAlways(current, val) == TRUE

\* Line 429: if (this._engine.get() !== val).
EngineDiffers(current, val) == current # val

\* _doSetEngine(val) up to its first await, called by the confirmed modal:
\* the check of line 429 and, when the value differs, the saveOnly call of
\* line 430.
doSetEngine(w, current) ==
  IF EngineDiffers(current, w.val)
  THEN [w EXCEPT !.state = "saving", !.seen = current,
                 !.events = @ \o <<"save">>]
  ELSE [w EXCEPT !.state = "same", !.seen = current]

\* setEngine with a fault: _doSetEngine is called without the modal.
setEngineUnconfirmed(val, current) ==
  doSetEngine([val |-> val, state |-> "modal", seen |-> "none", events |-> <<>>],
              current)

\* _setEngine(val), the onWrite of the engine field (lines 292, 423-425):
\* confirmModal(.., () => this._doSetEngine(val)) opens the modal. A write
\* is a record of the value, where the write stands, the engine value
\* _doSetEngine compared with, and the write's events in order.
setEngine(val, current) ==
  [val |-> val, state |-> "modal", seen |-> "none", events |-> <<"modal">>]

\* The engine field is written: the user picks a value in the select.
WriteEngine(val) ==
  /\ Len(writes) < MaxWrites
  /\ writes' = Append(writes, setEngine(val, engine))
  /\ last' = Did("writeEngine")
  /\ UNCHANGED <<engine, locale, localeSaves, selects, reported>>
  /\ UNCHANGED <<wrapperVars, lifeVars, obsValue, widgetVars, reloadVars>>

\* The user confirms the 'Save and Reload' modal of write i: the modal
\* calls its callback, _doSetEngine(val), which runs to its first await.
ConfirmModal(i) ==
  /\ i \in 1..Len(writes)
  /\ writes[i].state = "modal"
  /\ writes' = [writes EXCEPT
                  ![i] = doSetEngine([@ EXCEPT !.events = @ \o <<"confirm">>], engine)]
  /\ last' = Did("confirm")
  /\ UNCHANGED <<engine, locale, localeSaves, selects, reported>>
  /\ UNCHANGED <<wrapperVars, lifeVars, obsValue, widgetVars, reloadVars>>

\* The user dismisses the modal of write i: its callback is never called.
CancelModal(i) ==
  /\ i \in 1..Len(writes)
  /\ writes[i].state = "modal"
  /\ writes' = [writes EXCEPT ![i].state = "cancelled",
                              ![i].events = @ \o <<"cancel">>]
  /\ last' = Did("cancel")
  /\ UNCHANGED <<engine, locale, localeSaves, selects, reported>>
  /\ UNCHANGED <<wrapperVars, lifeVars, obsValue, widgetVars, reloadVars>>

\* The save of write i completes: the setting holds the value, and
\* _doSetEngine goes on to line 431 and calls forceReload.
SaveDone(i) ==
  /\ i \in 1..Len(writes)
  /\ writes[i].state = "saving"
  /\ engine' = writes[i].val
  /\ writes' = [writes EXCEPT ![i].state = "reloading",
                              ![i].events = @ \o <<"saved", "forceReload">>]
  /\ last' = Did("saved")
  /\ UNCHANGED <<locale, localeSaves, selects, reported>>
  /\ UNCHANGED <<wrapperVars, lifeVars, obsValue, widgetVars, reloadVars>>

\* The save of write i fails: the await of line 430 throws, and line 431 is
\* not reached.
SaveFails(i) ==
  /\ i \in 1..Len(writes)
  /\ writes[i].state = "saving"
  /\ writes' = [writes EXCEPT ![i].state = "saveFailed",
                              ![i].events = @ \o <<"saveFailed">>]
  /\ last' = [Did("saved") EXCEPT !.thrown = "save failed"]
  /\ UNCHANGED <<engine, locale, localeSaves, selects, reported>>
  /\ UNCHANGED <<wrapperVars, lifeVars, obsValue, widgetVars, reloadVars>>

\* The forceReload of write i completes, or fails: _doSetEngine ends.
ReloadEnds(i, ok) ==
  /\ i \in 1..Len(writes)
  /\ writes[i].state = "reloading"
  /\ writes' = [writes EXCEPT
                  ![i].state = IF ok THEN "done" ELSE "reloadFailed",
                  ![i].events = @ \o <<IF ok THEN "reloaded" ELSE "reloadFailed">>]
  /\ last' = [Did("reloaded") EXCEPT !.thrown = IF ok THEN "none" ELSE "reload failed"]
  /\ UNCHANGED <<engine, locale, localeSaves, selects, reported>>
  /\ UNCHANGED <<wrapperVars, lifeVars, obsValue, widgetVars, reloadVars>>

\* The locales of app/common/Locales, a few of them.
Locales ==
  {[name |-> "English (United States)", code |-> "en-US"],
   [name |-> "French (France)", code |-> "fr-FR"],
   [name |-> "Polish (Poland)", code |-> "pl-PL"]}

\* Lines 452-457: the item of the locale list made for locale l.
LocaleItem(l) == [value |-> l.name, label |-> l.name, locale |-> l.code]
localeList == {LocaleItem(l) : l \in Locales}

\* SavedLocale with a fault: the item's value, its display name, is saved.
SavedLocaleValue(item) == item.value

\* Line 472: locale.saveOnly(item.locale!).
SavedLocale(item) == item.locale

\* The save handler of the locale select (lines 470-473), called with the
\* item the user selected by its name.
SelectLocale(item) ==
  /\ selects < MaxSelects
  /\ selects' = selects + 1
  /\ localeSaves' = Append(localeSaves,
       [value |-> SavedLocale(item), selected |-> item.value, state |-> "pending"])
  /\ last' = [Did("saveLocale") EXCEPT !.arg = <<item.value>>]
  /\ UNCHANGED <<engine, writes, locale, reported>>
  /\ UNCHANGED <<wrapperVars, lifeVars, obsValue, widgetVars, reloadVars>>

\* The save handler called with no item: line 471 throws.
SelectNoLocale ==
  /\ selects < MaxSelects
  /\ selects' = selects + 1
  /\ last' = [Did("saveLocale") EXCEPT !.thrown = "Invalid locale"]
  /\ UNCHANGED <<engine, writes, locale, localeSaves, reported>>
  /\ UNCHANGED <<wrapperVars, lifeVars, obsValue, widgetVars, reloadVars>>

\* A saveOnly call on the locale completes, or fails and is handed to
\* reportError (.catch(reportError), line 472).
LocaleSaveEnds(i, ok) ==
  /\ i \in 1..Len(localeSaves)
  /\ localeSaves[i].state = "pending"
  /\ localeSaves' = [localeSaves EXCEPT ![i].state = IF ok THEN "saved" ELSE "failed"]
  /\ locale' = IF ok THEN localeSaves[i].value ELSE locale
  /\ reported' = IF ok THEN reported ELSE reported + 1
  /\ last' = Did("localeSaved")
  /\ UNCHANGED <<engine, writes, selects>>
  /\ UNCHANGED <<wrapperVars, lifeVars, obsValue, widgetVars, reloadVars>>

SettingsStart(engines, codes, docs) ==
  /\ Constructed(NoOptions)
  /\ obsValue = Undefined
  /\ metrics = DefaultMetrics
  /\ engine \in engines
  /\ writes = <<>>
  /\ locale \in codes
  /\ localeSaves = <<>>
  /\ selects = 0
  /\ reported = 0
  /\ clicks = <<>>
  /\ currentDocId \in docs

InitEngine == SettingsStart(EngineVals, {"en-US"}, {"doc1"})

NextEngine ==
  \/ \E val \in EngineVals : WriteEngine(val)
  \/ \E i \in 1..MaxWrites :
       \/ ConfirmModal(i)
       \/ CancelModal(i)
       \/ SaveDone(i)
       \/ SaveFails(i)
       \/ \E ok \in BOOLEAN : ReloadEnds(i, ok)

SpecEngine == InitEngine /\ [][NextEngine]_vars

InitLocale == SettingsStart({"undefined"}, {l.code : l \in Locales}, {"doc1"})

NextLocale ==
  \/ \E item \in localeList : SelectLocale(item)
  \/ SelectNoLocale
  \/ \E i \in 1..MaxSelects, ok \in BOOLEAN : LocaleSaveEnds(i, ok)

SpecLocale == InitLocale /\ [][NextLocale]_vars

\* ------------------------------------------------------------ the reload button
DocIds == {"doc1", "doc2"}

\* PageReloadAfter with a fault: the page is reloaded whatever the outcome.
PageReloadAlways(ok) == <<"pageReload">>

\* Lines 350-351: document.location.reload() follows the await of
\* forceReload, so it runs only when that await resolves.
PageReloadAfter(ok) == IF ok THEN <<"pageReload">> ELSE <<>>

\* A click on 'Reload data engine' (line 349): the handler runs to its
\* await, having called forceReload on the API of the current document. A
\* click is a record of the document, where the handler stands, and the
\* click's events in order.
ClickReload ==
  /\ Len(clicks) < MaxClicks
  /\ clicks' = Append(clicks, [doc |-> currentDocId, state |-> "reloading",
                               events |-> <<"forceReload">>])
  /\ last' = Did("clickReload")
  /\ UNCHANGED <<engine, writes, locale, localeSaves, selects, reported,
                 currentDocId>>
  /\ UNCHANGED <<wrapperVars, lifeVars, obsValue, widgetVars>>

\* The forceReload of click i completes and the handler goes on to line
\* 351, or fails and the handler ends at line 350.
ForceReloadEnds(i, ok) ==
  /\ i \in 1..Len(clicks)
  /\ clicks[i].state = "reloading"
  /\ clicks' = [clicks EXCEPT
                  ![i].state = IF ok THEN "done" ELSE "failed",
                  ![i].events = @ \o <<IF ok THEN "reloaded" ELSE "reloadFailed">>
                                  \o PageReloadAfter(ok)]
  /\ last' = [Did("forceReloadEnds") EXCEPT
                !.thrown = IF ok THEN "none" ELSE "reload failed"]
  /\ UNCHANGED <<engine, writes, locale, localeSaves, selects, reported,
                 currentDocId>>
  /\ UNCHANGED <<wrapperVars, lifeVars, obsValue, widgetVars>>

InitReload == SettingsStart({"undefined"}, {"en-US"}, DocIds)

NextReload ==
  \/ ClickReload
  \/ \E i \in 1..MaxClicks, ok \in BOOLEAN : ForceReloadEnds(i, ok)

SpecReload == InitReload /\ [][NextReload]_vars

\* ------------------------------------------------------------ claims
Count(seq, x) == Cardinality({k \in 1..Len(seq) : seq[k] = x})
\* The place of the first x in seq, 0 when there is none.
Pos(seq, x) ==
  IF \E k \in 1..Len(seq) : seq[k] = x
  THEN CHOOSE k \in 1..Len(seq) : seq[k] = x /\ \A j \in 1..(k - 1) : seq[j] # x
  ELSE 0

Ran(w) == w.seen # "none"
Ended(w) == w.state \in {"same", "saveFailed", "done", "reloadFailed"}

\* C1 as stated: a _doSetEngine(val) call that found val equal to the
\* engine value issues no remote call; one that found it different has, by
\* the time it ends, issued exactly one save and exactly one forceReload.
C1_SaveThenReload ==
  \A i \in 1..Len(writes) :
    LET w == writes[i]
    IN  Ran(w) =>
          IF w.val = w.seen
          THEN Count(w.events, "save") = 0 /\ Count(w.events, "forceReload") = 0
          ELSE /\ Count(w.events, "save") = 1
               /\ Ended(w) => Count(w.events, "forceReload") = 1

\* C1 amended: a _doSetEngine(val) call that found val equal to the engine
\* value issues no remote call; one that found it different issues exactly
\* one save, at once; if that save completes, exactly one forceReload
\* follows, issued after the completion; if the save fails, no forceReload
\* is issued.
C1_SaveThenReloadIfSaved ==
  \A i \in 1..Len(writes) :
    LET w == writes[i]
        ev == w.events
    IN  /\ ~Ran(w) => Count(ev, "save") = 0 /\ Count(ev, "forceReload") = 0
        /\ Ran(w) =>
             IF w.val = w.seen
             THEN Count(ev, "save") = 0 /\ Count(ev, "forceReload") = 0
             ELSE /\ Count(ev, "save") = 1
                  /\ Count(ev, "saved") + Count(ev, "saveFailed") <= 1
                  /\ Count(ev, "forceReload") = Count(ev, "saved")
                  /\ Count(ev, "saved") = 1 =>
                       /\ Pos(ev, "save") < Pos(ev, "saved")
                       /\ Pos(ev, "saved") < Pos(ev, "forceReload")
                  /\ Count(ev, "saveFailed") = 1 => Count(ev, "forceReload") = 0
                  /\ Ended(w) => Count(ev, "saved") + Count(ev, "saveFailed") = 1

\* One call found the value unchanged and one saved and reloaded.
C1_Witness ==
  \E i, j \in 1..Len(writes) :
    /\ writes[i].state = "same"
    /\ writes[i].val = engine
    /\ writes[j].state = "done"
    /\ writes[j].val # writes[j].seen

RemoteCalls(ev) == {k \in 1..Len(ev) : ev[k] \in {"save", "forceReload"}}

ConfirmedFirst(ws) ==
  \A i \in 1..Len(ws) :
    LET ev == ws[i].events
    IN  /\ \A k \in RemoteCalls(ev) :
             \E c \in 1..(k - 1) : ev[c] = "confirm" /\ ev[1] = "modal"
        /\ Count(ev, "confirm") = 0 => RemoteCalls(ev) = {}

\* C2: every save and forceReload of an engine write comes after the
\* confirmation of the modal opened for that write; a write whose modal is
\* not confirmed issues no remote call, and the stored engine changes only
\* when the save of a confirmed write completes.
C2_ConfirmBeforeRemote ==
  [][/\ ConfirmedFirst(writes')
     /\ engine' # engine =>
          \E i \in 1..Len(writes) :
            /\ Count(writes[i].events, "confirm") = 1
            /\ writes[i].state = "saving"
            /\ engine' = writes[i].val]_vars

\* One modal was dismissed and its write did nothing, while a confirmed
\* write saved the engine.
C2_Witness ==
  \E i, j \in 1..Len(writes) :
    /\ writes[i].state = "cancelled"
    /\ writes[i].events = <<"modal", "cancel">>
    /\ writes[i].val # engine
    /\ writes[j].state = "reloading"
    /\ engine = writes[j].val

\* C3: _setup runs at most once on a wrapper, so there is at most one widget,
\* one subscription to the observable and one blur handler.
C3_AtMostOneWidget ==
  /\ setupCalls <= 1
  /\ subscriptions <= 1
  /\ blurHandlers <= 1

\* C4: the timer of a disposed wrapper is cancelled: _setup never runs on a
\* wrapper that was disposed before its timer fired.
C4_TeardownCancelsTimer == setupsAfterDispose = 0

\* C5 as stated, in its result: once no setup is pending on a live wrapper,
\* every setup callback passed to buildDom has been called exactly once.
C5_CallbackExactlyOnce ==
  (timers = {} /\ ~disposed) => \A c \in passed : Len(cbCalls[c]) = 1

\* C5 amended: buildDom never runs _setup (the editor is the one it was,
\* none after the first buildDom) and leaves a timer pending; on a live
\* wrapper a timer firing, or onAttach while _setupTimer is set, runs _setup
\* at once, and onAttach clears the timer; nothing else runs _setup; a _setup
\* that runs to its end calls the callback of the latest buildDom, if one is
\* stored, once with the editor and clears it; no callback is called twice.
C5_DeferredSetup ==
  [][/\ buildCount' # buildCount =>
          /\ editor' = editor
          /\ setupCalls' = setupCalls
          /\ buildCount = 0 => editor' = 0
          /\ setupTimer' \in timers'
     /\ (~disposed /\ (timers' # timers /\ timers' \subseteq timers)) =>
          /\ setupCalls' = setupCalls + 1
          /\ editor' = editorDom /\ editor' # 0
     /\ (last'.op = "onAttach" /\ setupTimer # 0) =>
          /\ setupCalls' = setupCalls + 1
          /\ editor' = editorDom /\ editor' # 0
          /\ setupTimer' = 0
          /\ setupTimer \notin timers'
     /\ setupCalls' # setupCalls => last'.op \in {"timer", "onAttach"}
     /\ IF setupCalls' # setupCalls /\ last'.thrown = "none" /\ setupCallback # 0
        THEN /\ cbCalls' = [cbCalls EXCEPT ![setupCallback] = Append(@, editor')]
             /\ setupCallback' = 0
        ELSE cbCalls' = cbCalls
     /\ \A c \in 1..MaxBuild : Len(cbCalls'[c]) <= 1]_vars

\* onAttach came before the timer: it cleared the timer, the editor is
\* built and the callback was called once with it.
C5_Witness ==
  /\ last.op = "onAttach"
  /\ setupCalls = 1
  /\ timers = {}
  /\ setupTimer = 0
  /\ editor = 1
  /\ cbCalls[1] = <<1>>
  /\ setupCallback = 0

Bound == options.given /\ options.observable

\* C6: attachSaveCommand on a wrapper made without an observable throws and
\* leaves the editor's commands as they were; with an observable, on a built
\* editor, it adds the 'saveFormula' command bound to Shift+Enter, whose
\* exec writes the editor's text to the observable and returns true.
C6_SaveCommand ==
  [][/\ last'.op = "attachSaveCommand" =>
          IF ~Bound
          THEN last'.thrown = "Error" /\ commands' = commands
          ELSE editor # 0 =>
                 /\ last'.thrown = "none"
                 /\ \E c \in commands' :
                      c.name = "saveFormula" /\ c.bindKey = "Shift+Enter"
     /\ last'.op = "exec" =>
          /\ Bound
          /\ obsValue' = Str(text)
          /\ last'.handled]_vars

\* attachSaveCommand was called on a built editor with no observable.
C6_Witness ==
  /\ ~Bound
  /\ editor # 0
  /\ last.op = "attachSaveCommand"
  /\ last.thrown = "Error"
  /\ commands = {}

\* The offset in val of a row and column: the lines before, a newline each,
\* and the column.
RECURSIVE PositionToIndex(_, _)
PositionToIndex(lines, p) ==
  IF p.row = 0 THEN p.column
  ELSE Len(Head(lines)) + 1
         + PositionToIndex(Tail(lines), [p EXCEPT !.row = @ - 1])

\* C7: after setValue(val, pos) the editor holds val with nothing selected,
\* and the cursor is at the document start for pos = 0, at the document end
\* for pos omitted or pos >= val.length, and for 0 < pos < val.length at the
\* row and column indexToPosition gives, which is the place pos characters
\* into the text.
C7_CursorPlaced ==
  (last.op = "setValue" /\ last.thrown = "none") =>
    LET val == last.arg[1]
        hasPos == last.arg[2]
        pos == last.arg[3]
        lines == SplitLines(val)
    IN  /\ text = val
        /\ ~selectedAll
        /\ (hasPos /\ pos = 0) => cursor = [row |-> 0, column |-> 0]
        /\ (~hasPos \/ pos >= Len(val)) =>
             /\ cursor.row = Len(lines) - 1
             /\ cursor.column = Len(lines[Len(lines)])
        /\ (hasPos /\ 0 < pos /\ pos < Len(val)) =>
             /\ cursor = indexToPosition(val, pos)
             /\ cursor.row \in 0..(Len(lines) - 1)
             /\ cursor.column \in 0..Len(lines[cursor.row + 1])
             /\ PositionToIndex(lines, cursor) = pos

\* setValue placed the cursor at the start of the second line.
C7_Witness ==
  /\ last.op = "setValue"
  /\ last.arg = << <<NL, "a">>, TRUE, 1 >>
  /\ cursor = [row |-> 1, column |-> 0]
  /\ ~selectedAll

\* C8: a blur on a built editor writes the editor's text to the observable
\* exactly when an observable was bound at construction and
\* options.saveValueOnBlurEvent was not false; otherwise it writes nothing;
\* and writeObservable with no observable bound changes nothing.
C8_SaveOnBlur ==
  [][/\ last'.op = "blur" =>
          /\ editor # 0
          /\ IF Bound /\ options.saveValueOnBlurEvent # "false"
             THEN obsValue' = Str(text) /\ last'.wrote >= 1
             ELSE obsValue' = obsValue /\ last'.wrote = 0
     /\ (last'.op = "writeObservable" /\ ~Bound) =>
          /\ last'.wrote = 0
          /\ UNCHANGED <<obsValue, widgetVars>>]_vars

\* A blur wrote the typed text to an observable bound with no
\* saveValueOnBlurEvent option.
C8_Witness ==
  /\ last.op = "blur"
  /\ Bound
  /\ options.saveValueOnBlurEvent = "undefined"
  /\ last.wrote = 1
  /\ text = <<"a">>
  /\ obsValue = Str(<<"a">>)

Resized == last.op \in {"resize", "setFontSize", "type", "setValue", "timer"}

\* C9: after resize, calcSize was first asked with (content width + 10, or 0
\* in wrap mode) by (max(1, screen lines) * line height); it was asked a
\* second time, with the height 20 more, exactly when its first answer was
\* narrower than the content width, and then the second answer is applied;
\* the width applied is 'auto' for 0 and px otherwise; in wrap mode there
\* is no second question unless the first answer is negative.
C9_Resize ==
  (Resized /\ changeHandlers > 0) =>
    LET contentWidth == IF wrap THEN 0
                        ELSE getScreenWidth(text) * metrics.characterWidth
        lineCount == getScreenLength(text)
        desired == [width |-> IF wrap THEN 0 ELSE contentWidth + 10,
                    height |-> (IF lineCount < 1 THEN 1 ELSE lineCount)
                                 * metrics.lineHeight]
        taller == [width |-> desired.width, height |-> desired.height + 20]
        first == ApplyCalcSize(calcSize, desired)
        applied == IF Len(style.asked) = 2
                   THEN ApplyCalcSize(calcSize, taller) ELSE first
    IN  /\ Len(style.asked) \in {1, 2}
        /\ style.asked[1] = desired
        /\ Len(style.asked) = 2 <=> first.width < contentWidth
        /\ Len(style.asked) = 2 => style.asked[2] = taller
        /\ style.width = (IF applied.width = 0 THEN [unit |-> "auto", n |-> 0]
                          ELSE [unit |-> "px", n |-> applied.width])
        /\ style.height = [unit |-> "px", n |-> applied.height]
        /\ (wrap /\ first.width >= 0) => Len(style.asked) = 1

\* Out of wrap mode the clamp answered narrower than the line of text, and
\* the second, taller question was put and its answer applied.
C9_Witness ==
  /\ last.op = "resize"
  /\ ~wrap
  /\ calcSize = [kind |-> "clamp", w |-> 12, h |-> 100]
  /\ text = <<"a", "a">>
  /\ Len(style.asked) = 2
  /\ style.asked[2].height = style.asked[1].height + 20
  /\ style.width = Px(12)
  /\ style.height = Px(metrics.lineHeight + 20)

\* C10: every save of the locale that the select's handler issues carries
\* the locale code of the item selected by its name, never the name; called
\* with no item the handler throws 'Invalid locale', issues no save and
\* leaves the stored locale as it is; the stored locale is always a code.
C10_LocaleSave ==
  [][/\ \A i \in 1..Len(localeSaves') :
          \E l \in Locales :
            /\ l.name = localeSaves'[i].selected
            /\ localeSaves'[i].value = l.code
            /\ localeSaves'[i].value # l.name
     /\ (last'.op = "saveLocale" /\ last'.arg # <<>>) =>
          /\ last'.thrown = "none"
          /\ Len(localeSaves') = Len(localeSaves) + 1
          /\ localeSaves'[Len(localeSaves')].selected = last'.arg[1]
          /\ localeSaves'[Len(localeSaves')].state = "pending"
     /\ (last'.op = "saveLocale" /\ last'.arg = <<>>) =>
          /\ last'.thrown = "Invalid locale"
          /\ localeSaves' = localeSaves
          /\ locale' = locale
     /\ locale' \in {l.code : l \in Locales}]_vars

\* A locale selected by its name was saved under its code, and a call with
\* no item threw.
C10_Witness ==
  /\ last.op = "saveLocale"
  /\ last.thrown = "Invalid locale"
  /\ Len(localeSaves) = 1
  /\ localeSaves[1].selected = "French (France)"
  /\ localeSaves[1].state = "saved"
  /\ locale = "fr-FR"

\* C11: every click on 'Reload data engine' issues one forceReload call, for
\* the current document; the page is reloaded once, after that call has
\* completed, and is not reloaded while the call is pending or when it
\* failed.
C11_ReloadThenPage ==
  \A i \in 1..Len(clicks) :
    LET c == clicks[i]
        ev == c.events
    IN  /\ c.doc = currentDocId
        /\ Count(ev, "forceReload") = 1
        /\ ev[1] = "forceReload"
        /\ Count(ev, "pageReload") = Count(ev, "reloaded")
        /\ Count(ev, "pageReload") <= 1
        /\ Count(ev, "pageReload") = 1 =>
             /\ Pos(ev, "forceReload") < Pos(ev, "reloaded")
             /\ Pos(ev, "reloaded") < Pos(ev, "pageReload")
        /\ c.state = "done" <=> Count(ev, "pageReload") = 1
        /\ c.state = "failed" =>
             Count(ev, "reloadFailed") = 1 /\ Count(ev, "pageReload") = 0

\* One click reloaded the page after its forceReload, and the forceReload
\* of another failed.
C11_Witness ==
  \E i, j \in 1..Len(clicks) :
    /\ clicks[i].events = <<"forceReload", "reloaded", "pageReload">>
    /\ clicks[j].events = <<"forceReload", "reloadFailed">>
    /\ clicks[j].doc = "doc2"

\* C12: on a live wrapper with a bound observable, a _setup sets the editor
\* text to the observable's value, and so does every change of the
\* observable after a _setup; an undefined value is skipped and leaves the
\* text as it is (empty in a widget just made). Before the first _setup a
\* change of the observable leaves the editor null and the widget untouched,
\* and getValue() is null; once an editor exists getValue() is its text.
C12_ObservableBinding ==
  [][/\ (setupCalls' # setupCalls /\ ~disposed /\ Bound) =>
          text' = IF obsValue # Undefined THEN obsValue.s
                  ELSE IF editor # editorDom THEN <<>> ELSE text
     /\ (obsValue' # obsValue /\ setupCalls > 0 /\ ~disposed /\ Bound) =>
          text' = IF obsValue' # Undefined THEN obsValue'.s ELSE text
     /\ (obsValue' # obsValue /\ setupCalls = 0) =>
          /\ editor' = 0
          /\ UNCHANGED widgetVars
     /\ setupCalls = 0 => getValue = Null
     /\ setupCalls' = 0 => getValue' = Null
     /\ editor' # 0 => getValue' = Str(text')]_vars

\* After a _setup the observable's value was shown, and a later change to
\* undefined left that text in the editor.
C12_Witness ==
  /\ Bound
  /\ ~disposed
  /\ setupCalls = 1
  /\ last.op = "observable"
  /\ obsValue = Undefined
  /\ text = <<"a">>
====
